---------------------------- MODULE Spec2Model ----------------------------
(***************************************************************************)
(* Model of scripts/assign_metadata_from_csv.py (metadata catalog, scorer, *)
(* greedy resolver, header merger) and scripts/tree_build.py (tree         *)
(* builder).                                                               *)
(*                                                                         *)
(* Strings are sequences of one-character strings.  A text is a sequence   *)
(* of lines, each line terminated by a newline; a line is a string without *)
(* newline.  A header key name ("title", "level", ...) is written as one   *)
(* element of a string and stands for its characters; the alphabets below  *)
(* hold no letters from which a key name could be spelled otherwise.       *)
(* Python's None and "" are both the empty string <<>> wherever the code   *)
(* only tests truthiness; a missing dict key is a key outside DOMAIN.      *)
(***************************************************************************)
EXTENDS Integers, Sequences, FiniteSets, TLC

VARIABLES
    \* dedupe_rows / dedupe_rows_last applied to one row sequence
    d_pc, d_rows, d_first, d_last,
    \* ensure_front_matter applied repeatedly to one file
    m_pc, m_file, m_assign, m_hist,
    \* main: the arguments, the loaded rows, the extracted files, the
    \* resolver's and the apply loop's locals, the archive written
    pc, dedupe, dry_run, rows0, rows, title_items, md_files, files,
    md_candidates, md_order, assigned, used_title_idxs,
    ok, skipped_no_change, miss, ambiguous, mapping_report, zip_written,
    \* tree_build: the files under content/ and the tree built from them
    t_pc, t_docs, t_tree

dvars == <<d_pc, d_rows, d_first, d_last>>

mvars == <<m_pc, m_file, m_assign, m_hist>>

avars == <<pc, dedupe, dry_run, rows0, rows, title_items, md_files, files,
           md_candidates, md_order, assigned, used_title_idxs,
           ok, skipped_no_change, miss, ambiguous, mapping_report, zip_written>>

tvars == <<t_pc, t_docs, t_tree>>

vars == <<dvars, mvars, avars, tvars>>

\* the variables of a specification that does not use them
DIdle ==
    /\ d_pc = "idle"
    /\ d_rows = <<>>
    /\ d_first = <<>>
    /\ d_last = <<>>

MIdle ==
    /\ m_pc = "idle"
    /\ m_file = <<>>
    /\ m_assign = <<>>
    /\ m_hist = <<>>

TIdle ==
    /\ t_pc = "idle"
    /\ t_docs = <<>>
    /\ t_tree = <<>>

ALocals ==
    /\ rows0 = <<>>
    /\ rows = <<>>
    /\ title_items = <<>>
    /\ md_files = <<>>
    /\ files = <<>>
    /\ md_candidates = <<>>
    /\ md_order = <<>>
    /\ assigned = <<>>
    /\ used_title_idxs = {}
    /\ ok = 0
    /\ skipped_no_change = 0
    /\ miss = <<>>
    /\ ambiguous = <<>>
    /\ mapping_report = <<>>
    /\ zip_written = FALSE

AIdle ==
    /\ pc = "idle"
    /\ dedupe = "first"
    /\ dry_run = FALSE
    /\ ALocals

-----------------------------------------------------------------------------
(* Generic helpers *)

Max(a, b) == IF a >= b THEN a ELSE b

Abs(a) == IF a >= 0 THEN a ELSE -a

Range(s) == {s[i] : i \in 1..Len(s)}

\* all sequences over S of length 0..n
SeqsUpTo(S, n) == UNION {[1..k -> S] : k \in 0..n}

Whitespace == {" ", "IDSP"}

IsSpace(c) == c \in Whitespace

RECURSIVE LStripSet(_, _)
LStripSet(s, C) ==
    IF s # <<>> /\ Head(s) \in C THEN LStripSet(Tail(s), C) ELSE s

RECURSIVE RStripSet(_, _)
RStripSet(s, C) ==
    IF s # <<>> /\ s[Len(s)] \in C THEN RStripSet(SubSeq(s, 1, Len(s) - 1), C) ELSE s

\* str.strip()
Strip(s) == RStripSet(LStripSet(s, Whitespace), Whitespace)

\* s occurs in t as a contiguous substring (Python's `s in t`)
IsSubstring(s, t) ==
    \E i \in 0..(Len(t) - Len(s)) : SubSeq(t, i + 1, i + Len(s)) = s

\* get with None and "" both falsy
OrEmpty(r, k) == IF k \in DOMAIN r THEN r[k] ELSE <<>>

-----------------------------------------------------------------------------
(* Normalizer *)

\* unicodedata.normalize("NFKC", s) on the title alphabet: the full-width
\* letter "FWA" folds to "A", the ideographic space "IDSP" to " ".
NfkcChar(c) ==
    CASE c = "FWA" -> "A"
      [] c = "IDSP" -> " "
      [] OTHER -> c

nfkc(s) == [i \in 1..Len(s) |-> NfkcChar(s[i])]

CasefoldChar(c) ==
    CASE c = "A" -> "a"
      [] c = "B" -> "b"
      [] OTHER -> c

casefold(s) == [i \in 1..Len(s) |-> CasefoldChar(s[i])]

\* re.sub(r"\s+", " ", s)
RECURSIVE CollapseSpaces(_)
CollapseSpaces(s) ==
    IF s = <<>> THEN <<>>
    ELSE IF IsSpace(Head(s))
         THEN <<" ">> \o CollapseSpaces(LStripSet(s, Whitespace))
         ELSE <<Head(s)>> \o CollapseSpaces(Tail(s))

\* the characters ALNUM_CJK_RE keeps: [0-9a-zA-Z一-鿿]; "FA" is the
\* CJK ideograph U+6CD5
AlnumCjk == {"0", "1", "2", "a", "b", "A", "B", "FA"}

ALNUM_CJK_RE_sub(s) == SelectSeq(s, LAMBDA c : c \in AlnumCjk)

normalize_title(s) == ALNUM_CJK_RE_sub(CollapseSpaces(Strip(casefold(nfkc(s)))))

-----------------------------------------------------------------------------
(* Metadata catalog: de-duplication *)

\* (r.get("category_code") or r.get("category") or r.get("类目编码") or "")
\* with "category_cn" standing for the third field name
CategoryOf(r) ==
    IF OrEmpty(r, "category_code") # <<>> THEN r["category_code"]
    ELSE IF OrEmpty(r, "category") # <<>> THEN r["category"]
    ELSE OrEmpty(r, "category_cn")

\* the key both de-duplications compute for a row
DedupeKey(r) == <<normalize_title(OrEmpty(r, "title")), LStripSet(CategoryOf(r), {"0"})>>

\* dedupe_rows: the loop, keeping `seen` (the keys met) and `order`
RECURSIVE DedupeFirstLoop(_, _, _, _)
DedupeFirstLoop(rws, i, seen, order) ==
    IF i > Len(rws) THEN order
    ELSE IF DedupeKey(rws[i]) \notin seen
         THEN DedupeFirstLoop(rws, i + 1, seen \cup {DedupeKey(rws[i])}, Append(order, i))
         ELSE DedupeFirstLoop(rws, i + 1, seen, order)

dedupe_rows(rws) ==
    LET order == DedupeFirstLoop(rws, 1, {}, <<>>)
    IN  [j \in 1..Len(order) |-> rws[order[j]]]

\* dedupe_rows_last: the loop; `seen` is a dict in insertion order, kept as
\* the sequence of its (key, index) items
RECURSIVE DedupeLastLoop(_, _, _)
DedupeLastLoop(rws, i, seen) ==
    IF i > Len(rws) THEN seen
    ELSE LET key == DedupeKey(rws[i])
             at == {j \in 1..Len(seen) : seen[j][1] = key}
         IN  IF at = {}
             THEN DedupeLastLoop(rws, i + 1, Append(seen, <<key, i>>))
             ELSE DedupeLastLoop(rws, i + 1,
                      [j \in 1..Len(seen) |-> IF j \in at THEN <<key, i>> ELSE seen[j]])

\* sorted(...) of a sequence of distinct integers
RECURSIVE SortedInts(_)
SortedInts(S) ==
    IF S = {} THEN <<>>
    ELSE LET m == CHOOSE x \in S : \A y \in S : x <= y
         IN  <<m>> \o SortedInts(S \ {m})

\* seen.values() of dedupe_rows_last, in dict order
SeenValues(seen) == [j \in 1..Len(seen) |-> seen[j][2]]

\* a loss of the sorted() call: the indices in dict insertion order
LastIdxsUnsorted(seen) == SeenValues(seen)

LastIdxs(seen) == SortedInts(Range(SeenValues(seen)))

dedupe_rows_last(rws) ==
    LET idxs == LastIdxs(DedupeLastLoop(rws, 1, <<>>))
    IN  [j \in 1..Len(idxs) |-> rws[idxs[j]]]

-----------------------------------------------------------------------------
(* Header merger *)

FRONT_KEYS ==
    <<"category_code", "category_name", "level", "catalog_key", "sub_anchor",
      "parent_key", "version_key">>

Dashes == <<"-", "-", "-">>

Quotes == {"'", "\""}

\* a line matching ^---\s*$
IsDelimLine(l) ==
    /\ Len(l) >= 3
    /\ SubSeq(l, 1, 3) = Dashes
    /\ \A i \in 4..Len(l) : IsSpace(l[i])

IsBlankLine(l) == \A i \in 1..Len(l) : IsSpace(l[i])

\* text.startswith("---")
StartsWithDashes(text) ==
    /\ text # <<>>
    /\ Len(text[1]) >= 3
    /\ SubSeq(text[1], 1, 3) = Dashes

\* the number of consecutive blank lines of text from line i on
RECURSIVE BlankRun(_, _)
BlankRun(text, i) ==
    IF i <= Len(text) /\ IsBlankLine(text[i]) THEN 1 + BlankRun(text, i + 1) ELSE 0

DelimLinesAfter(text, s) == {e \in (s + 1)..Len(text) : IsDelimLine(text[e])}

MinOf(S) == CHOOSE x \in S : \A y \in S : x <= y

MaxOf(S) == CHOOSE x \in S : \A y \in S : x >= y

\* re.match(r"^---\s*\n(.*?)\n---\s*\n(.*)\Z", text, flags=re.S) on a text of
\* newline-terminated lines: the opening \s*\n takes j of the blank lines
\* after line 1 (the most first), group 1 starts at line s = 2 + j and runs
\* to the line before the first delimiter line e > s, the closing \s*\n
\* takes the blank lines after e.  The result is <<s, e>>, or <<>> for no match.
StrictFence(text) ==
    IF text = <<>> \/ ~IsDelimLine(text[1]) THEN <<>>
    ELSE LET js == {j \in 0..BlankRun(text, 2) : DelimLinesAfter(text, 2 + j) # {}}
         IN  IF js = {} THEN <<>>
             ELSE LET s == 2 + MaxOf(js)
                  IN  <<s, MinOf(DelimLinesAfter(text, s))>>

\* re.split(r"^---\s*$", text, maxsplit=2, flags=re.M): the first two
\* delimiter lines, or <<>> when the text has fewer than two
LooseFence(text) ==
    LET ds == {e \in 1..Len(text) : IsDelimLine(text[e])}
    IN  IF Cardinality(ds) < 2 THEN <<>>
        ELSE <<MinOf(ds), MinOf(ds \ {MinOf(ds)})>>

\* split_front_matter: (kind, yaml_text, body).  The body is given up to its
\* leading blank lines, which the one caller strips.
split_front_matter(text) ==
    IF ~StartsWithDashes(text) THEN [kind |-> "none", yaml |-> <<>>, body |-> text]
    ELSE IF StrictFence(text) # <<>>
    THEN LET f == StrictFence(text)
             b == f[2] + 1 + BlankRun(text, f[2] + 1)
         IN  [kind |-> "yaml", yaml |-> SubSeq(text, f[1], f[2] - 1),
              body |-> SubSeq(text, b, Len(text))]
    ELSE IF LooseFence(text) # <<>>
    THEN LET f == LooseFence(text)
         IN  [kind |-> "yaml", yaml |-> SubSeq(text, f[1] + 1, f[2] - 1),
              body |-> SubSeq(text, f[2] + 1, Len(text))]
    ELSE [kind |-> "none", yaml |-> <<>>, body |-> text]

\* the characters of [A-Za-z0-9_\-]; a key name is a run of them
KeyNames ==
    {"title", "category_code", "category_name", "level", "catalog_key",
     "sub_anchor", "parent_key", "version_key", "author"}

WordChars == KeyNames \cup {"a", "b", "t", "x", "q", "0", "1", "2", "-", "_"}

\* the length of the longest prefix of s made of characters of C
RECURSIVE PrefixLen(_, _)
PrefixLen(s, C) ==
    IF s # <<>> /\ Head(s) \in C THEN 1 + PrefixLen(Tail(s), C) ELSE 0

DropN(s, n) == SubSeq(s, n + 1, Len(s))

\* re.sub(r"^['\"]|['\"]$", "", v): one quote off the front, then one off the end
StripOneQuote(v) ==
    LET a == IF v # <<>> /\ Head(v) \in Quotes THEN Tail(v) ELSE v
    IN  IF a # <<>> /\ a[Len(a)] \in Quotes THEN SubSeq(a, 1, Len(a) - 1) ELSE a

\* re.match(r"\s*([A-Za-z0-9_\-]+)\s*:\s*(.*)\s*$", line): <<key, value>> with
\* the value stripped and unquoted as parse_yaml does, or <<>> for no match
ParseLine(line) ==
    LET a == DropN(line, PrefixLen(line, Whitespace))
        n == PrefixLen(a, WordChars)
        b == DropN(a, n)
        c == DropN(b, PrefixLen(b, Whitespace))
    IN  IF n = 0 \/ c = <<>> \/ Head(c) # ":" THEN <<>>
        ELSE <<SubSeq(a, 1, n), StripOneQuote(Strip(Tail(c)))>>

\* parse_yaml: the dict, a function from keys to values; a later line of a
\* key overrides an earlier one
RECURSIVE parse_yaml(_)
parse_yaml(lines) ==
    IF lines = <<>> THEN <<>>
    ELSE LET rest == parse_yaml(SubSeq(lines, 1, Len(lines) - 1))
             kv == ParseLine(lines[Len(lines)])
         IN  IF kv = <<>> THEN rest
             ELSE (kv[1] :> kv[2]) @@ rest

\* a dict as parse_yaml builds it is keyed by strings; <<k>> is the key
\* spelled by the key name k.  An empty dict is <<>>.
MetaHas(meta, k) == <<k>> \in DOMAIN meta

MetaGet(meta, k) == IF MetaHas(meta, k) THEN meta[<<k>>] ELSE <<>>

MetaSet(meta, k, v) == (<<k>> :> v) @@ meta

\* the characters of [#:\s>\-\[\]\{\}]
UnsafeChars == {"#", ":", ">", "-", "[", "]", "{", "}"} \cup Whitespace

\* sval.replace('"', '\\"')
RECURSIVE EscapeQuotes(_)
EscapeQuotes(s) ==
    IF s = <<>> THEN <<>>
    ELSE IF Head(s) = "\""
         THEN <<"\\", "\"">> \o EscapeQuotes(Tail(s))
         ELSE <<Head(s)>> \o EscapeQuotes(Tail(s))

\* the line dump_yaml appends for key k with the non-empty value v
DumpLine(k, v) ==
    IF \E i \in 1..Len(v) : v[i] \in UnsafeChars
    THEN <<k, ":", " ", "\"">> \o EscapeQuotes(v) \o <<"\"">>
    ELSE <<k, ":", " ">> \o v

\* a slice that loses the first front-matter key
DumpOrderDropsFirst == <<"title">> \o Tail(FRONT_KEYS)

\* ["title"] + FRONT_KEYS, the keys dump_yaml writes, in its order
DumpOrder == <<"title">> \o FRONT_KEYS

RECURSIVE DumpLoop(_, _)
DumpLoop(d, ks) ==
    IF ks = <<>> THEN <<>>
    ELSE IF ~MetaHas(d, Head(ks)) \/ MetaGet(d, Head(ks)) = <<>>
         THEN DumpLoop(d, Tail(ks))
         ELSE <<DumpLine(Head(ks), MetaGet(d, Head(ks)))>> \o DumpLoop(d, Tail(ks))

\* dump_yaml: "\n".join(out) + "\n" as lines; with out empty, the one
\* empty line "\n"
dump_yaml(d) ==
    LET out == DumpLoop(d, DumpOrder)
    IN  IF out = <<>> THEN <<<<>>>> ELSE out

\* body.lstrip()
LStripText(body) ==
    LET b == DropN(body, BlankRun(body, 1))
    IN  IF b = <<>> THEN <<>>
        ELSE <<LStripSet(b[1], Whitespace)>> \o Tail(b)

\* the update loop of ensure_front_matter over FRONT_KEYS + ["title"]:
\* <<meta, changed>>
RECURSIVE ApplyUpdates(_, _, _, _)
ApplyUpdates(meta, assign, ks, changed) ==
    IF ks = <<>> THEN <<meta, changed>>
    ELSE LET k == Head(ks)
         IN  IF k \in DOMAIN assign /\ assign[k] # <<>> /\ MetaGet(meta, k) # assign[k]
             THEN ApplyUpdates(MetaSet(meta, k, assign[k]), assign, Tail(ks), TRUE)
             ELSE ApplyUpdates(meta, assign, Tail(ks), changed)

\* ensure_front_matter on the file's text: the value returned (changed,
\* text) and, as `written`, whether write_text ran
ensure_front_matter(text, assign) ==
    LET sp == split_front_matter(text)
        meta0 == IF sp.kind = "yaml" THEN parse_yaml(sp.yaml) ELSE <<>>
        body == IF sp.kind = "yaml" THEN sp.body ELSE text
        up == ApplyUpdates(meta0, assign, FRONT_KEYS \o <<"title">>, FALSE)
        new_text == <<Dashes>> \o dump_yaml(up[1]) \o <<Dashes>> \o LStripText(body)
    IN  IF up[2] /\ new_text # text
        THEN [changed |-> TRUE, text |-> new_text, written |-> TRUE]
        ELSE [changed |-> FALSE, text |-> text, written |-> FALSE]

\* r.get(k) or r.get(alias)
FieldOf(r, k, alias) == IF OrEmpty(r, k) # <<>> THEN r[k] ELSE OrEmpty(r, alias)

\* the keys of the assign dict
AssignKeys == {"title"} \cup Range(FRONT_KEYS)

\* the assign dict main builds from the selected item's title and row
AssignOf(title, r) ==
    [k \in AssignKeys |->
        CASE k = "title" -> title
          [] k = "category_code" -> CategoryOf(r)
          [] k = "category_name" -> FieldOf(r, "category_name", "category_name_cn")
          [] k = "level" -> FieldOf(r, "level", "level_cn")
          [] k = "catalog_key" -> FieldOf(r, "catalog_key", "catalog_key_cn")
          [] k = "sub_anchor" -> FieldOf(r, "sub_anchor", "sub_anchor_cn")
          [] k = "parent_key" -> FieldOf(r, "parent_key", "parent_key_cn")
          [] OTHER -> FieldOf(r, "version_key", "version_key_cn")]

-----------------------------------------------------------------------------
(* Specification SpecMerge: the merge applied to one file, then again *)

MaxLines == 4

MaxApplications == 2

MergeLineVocab ==
    { Dashes,
      <<>>,
      <<" ", "x">>,
      <<"author", ":", " ", "x">>,
      <<"level", ":", " ", "1">>,
      <<"title", ":", " ", "t">>,
      <<"sub_anchor", ":", " ", "'", "'", "x", "'", "'">> }

MergeRows ==
    {[title |-> t, category_code |-> c] :
        t \in {<<"t">>, <<"'", "t", "'">>},
        c \in {<<>>, <<"0", "1">>}}

MInit ==
    /\ m_pc = "start"
    /\ m_file = <<>>
    /\ m_assign = <<>>
    /\ m_hist = <<>>
    /\ DIdle
    /\ AIdle
    /\ TIdle

\* the file as found and the assignment the resolver made for it
MRead ==
    /\ m_pc = "start"
    /\ \E text \in SeqsUpTo(MergeLineVocab, MaxLines) : m_file' = text
    /\ \E r \in MergeRows : m_assign' = AssignOf(r.title, r)
    /\ m_pc' = "merge"
    /\ UNCHANGED <<m_hist, dvars, avars, tvars>>

\* one call of ensure_front_matter on the file
MApply ==
    /\ m_pc = "merge"
    /\ Len(m_hist) < MaxApplications
    /\ LET res == ensure_front_matter(m_file, m_assign)
       IN  /\ m_file' = IF res.written THEN res.text ELSE m_file
           /\ m_hist' = Append(m_hist, [before |-> m_file, changed |-> res.changed,
                                        after |-> res.text])
    /\ UNCHANGED <<m_pc, m_assign, dvars, avars, tvars>>

MNext == MRead \/ MApply

SpecMerge == MInit /\ [][MNext]_vars

-----------------------------------------------------------------------------
(* C2, C3, C6 *)

\* C2: the second application reports changed = false and leaves the text
\* of the first application's output.
C2_MergeIdempotent ==
    Len(m_hist) >= 2 =>
        /\ m_hist[2].changed = FALSE
        /\ m_hist[2].after = m_hist[1].after

\* the keys of the header block of a text
HeaderKeys(text) ==
    LET sp == split_front_matter(text)
    IN  IF sp.kind = "yaml" THEN DOMAIN parse_yaml(sp.yaml) ELSE {}

HeaderOf(text) ==
    LET sp == split_front_matter(text)
    IN  IF sp.kind = "yaml" THEN parse_yaml(sp.yaml) ELSE <<>>

C6_OtherKeysKept ==
    \A n \in 1..Len(m_hist) :
        LET after == HeaderOf(m_hist[n].after)
            before == HeaderOf(m_hist[n].before)
        IN  \A key \in DOMAIN before :
                (\A k \in AssignKeys : key # <<k>>)
                    => (key \in DOMAIN after /\ after[key] = before[key])

-----------------------------------------------------------------------------
(* Specification SpecDedupe: both policies on one row sequence *)

MaxDedupeRows == 3

DedupeTitles == {<<"a">>, <<"A">>, <<"a", " ", "b">>, <<"a", "b">>}

DedupeCodes == {<<>>, <<"1">>, <<"0", "1">>, <<"0">>}

\* rows as load_csv hands them over: a non-empty title; the category under
\* its primary field name or under the alias "category"
DedupeRowSet ==
    {[title |-> t, category_code |-> c] : t \in DedupeTitles, c \in DedupeCodes}
    \cup {[title |-> t, category |-> c] : t \in {<<"a">>}, c \in {<<"1">>, <<"0", "1">>}}

DInit ==
    /\ d_pc = "start"
    /\ d_rows = <<>>
    /\ d_first = <<>>
    /\ d_last = <<>>
    /\ MIdle
    /\ AIdle
    /\ TIdle

DLoad ==
    /\ d_pc = "start"
    /\ \E rws \in SeqsUpTo(DedupeRowSet, MaxDedupeRows) : d_rows' = rws
    /\ d_pc' = "loaded"
    /\ UNCHANGED <<d_first, d_last, mvars, avars, tvars>>

DDedupe ==
    /\ d_pc = "loaded"
    /\ d_first' = dedupe_rows(d_rows)
    /\ d_last' = dedupe_rows_last(d_rows)
    /\ d_pc' = "done"
    /\ UNCHANGED <<d_rows, mvars, avars, tvars>>

DNext == DLoad \/ DDedupe

SpecDedupe == DInit /\ [][DNext]_vars

-----------------------------------------------------------------------------
(* C8 *)

\* the indices of rws at which each key occurs first / last
FirstIndices(rws) ==
    {i \in 1..Len(rws) : \A j \in 1..(i - 1) : DedupeKey(rws[j]) # DedupeKey(rws[i])}

LastIndices(rws) ==
    {i \in 1..Len(rws) : \A j \in (i + 1)..Len(rws) : DedupeKey(rws[j]) # DedupeKey(rws[i])}

KeysOf(rws) == {DedupeKey(rws[i]) : i \in 1..Len(rws)}

\* C8: keep-first and keep-last retain the same number of rows, one per
\* distinct key; keep-first is the rows at the first occurrence of each key
\* and keep-last the rows at the last occurrence, both in source order.
C8_DedupePoliciesAgree ==
    d_pc = "done" =>
        /\ Len(d_first) = Len(d_last)
        /\ Len(d_first) = Cardinality(KeysOf(d_rows))
        /\ \A k \in KeysOf(d_rows) :
              /\ Cardinality({j \in 1..Len(d_first) : DedupeKey(d_first[j]) = k}) = 1
              /\ Cardinality({j \in 1..Len(d_last) : DedupeKey(d_last[j]) = k}) = 1
        /\ LET fi == SortedInts(FirstIndices(d_rows))
               li == SortedInts(LastIndices(d_rows))
           IN  /\ d_first = [j \in 1..Len(fi) |-> d_rows[fi[j]]]
               /\ d_last = [j \in 1..Len(li) |-> d_rows[li[j]]]

\* a duplicate key whose occurrences enclose another key's row, so that the
\* two policies keep different rows
C8_Witness ==
    /\ d_pc = "done"
    /\ Len(d_rows) = 3
    /\ DedupeKey(d_rows[1]) = DedupeKey(d_rows[3])
    /\ DedupeKey(d_rows[1]) # DedupeKey(d_rows[2])
    /\ d_rows[1] # d_rows[3]
    /\ d_first # d_last

-----------------------------------------------------------------------------
(* Catalog items and candidate scorer *)

\* build_title_items: one item per row with a title; idx is the row's position
\* (from 1 here, from 0 in the code).  The slug, which nothing reads, is left out.
build_title_items(rws) ==
    LET keep == SelectSeq([i \in 1..Len(rws) |-> i], LAMBDA i : OrEmpty(rws[i], "title") # <<>>)
    IN  [j \in 1..Len(keep) |->
            [idx |-> keep[j], row |-> rws[keep[j]], title |-> rws[keep[j]].title,
             norm |-> normalize_title(rws[keep[j]].title),
             category |-> LStripSet(CategoryOf(rws[keep[j]]), {"0"})]]

Digits == {"0", "1", "2"}

content_root == <<"content">>

\* md.parts of a file found by (td / content_root).rglob("*.md"), td being the
\* absolute path of the temporary directory
PartsOf(md) == <<<<"/">>, <<"tmp">>, <<"td">>, content_root, md.dir, md.stem \o <<".md">>>>

\* md_cat: parts[0], parts[1] of the code are the first two parts
MdCat(md) ==
    LET parts == PartsOf(md)
        n == PrefixLen(parts[2], Digits)
    IN  IF Len(parts) >= 2 /\ parts[1] = content_root /\ n > 0
        THEN LStripSet(SubSeq(parts[2], 1, n), {"0"})
        ELSE <<>>

BaseScore == 500

ExactBonus == 500

CategoryBonus == 100

LengthBonus == 100

\* the score of a matching item
ScoreOf(t, md_norm, md_cat) ==
    BaseScore
    + (IF t.norm = md_norm THEN ExactBonus ELSE 0)
    + (IF t.category = md_cat /\ md_cat # <<>> THEN CategoryBonus ELSE 0)
    + Max(0, LengthBonus - Abs(Len(t.norm) - Len(md_norm)))

\* the order cands.sort(key=lambda x: (-x[0], -len(x[1]["norm"]))) sorts by
CandLeq(x, y) ==
    \/ -x.score < -y.score
    \/ (-x.score = -y.score /\ -Len(x.t.norm) <= -Len(y.t.norm))

\* list.sort is stable: x goes after every element already placed that
\* does not sort after it
RECURSIVE InsertCand(_, _)
InsertCand(sorted, x) ==
    IF sorted = <<>> THEN <<x>>
    ELSE IF CandLeq(Head(sorted), x)
         THEN <<Head(sorted)>> \o InsertCand(Tail(sorted), x)
         ELSE <<x>> \o sorted

RECURSIVE SortCands(_)
SortCands(s) ==
    IF s = <<>> THEN <<>>
    ELSE InsertCand(SortCands(SubSeq(s, 1, Len(s) - 1)), s[Len(s)])

best_candidates_for_md(md, items) ==
    LET md_norm == normalize_title(md.stem)
        md_cat == MdCat(md)
        match == SelectSeq(items, LAMBDA t :
                     /\ t.norm # <<>> /\ md_norm # <<>>
                     /\ (t.norm = md_norm \/ IsSubstring(t.norm, md_norm)
                            \/ IsSubstring(md_norm, t.norm)))
        cands == [j \in 1..Len(match) |->
                     [score |-> ScoreOf(match[j], md_norm, md_cat), t |-> match[j]]]
    IN  SortCands(cands)

-----------------------------------------------------------------------------
(* Assignment resolver *)

\* a lost negation: the least confident first
OrderKeyAscending(kv) == IF kv.cands # <<>> THEN kv.cands[1].score ELSE 0

\* the key md_order sorts by: -(top score, or 0 without candidates)
OrderKey(kv) == -(IF kv.cands # <<>> THEN kv.cands[1].score ELSE 0)

\* sorted() is stable
RECURSIVE InsertByOrderKey(_, _)
InsertByOrderKey(sorted, x) ==
    IF sorted = <<>> THEN <<x>>
    ELSE IF OrderKey(Head(sorted)) <= OrderKey(x)
         THEN <<Head(sorted)>> \o InsertByOrderKey(Tail(sorted), x)
         ELSE <<x>> \o sorted

\* md_order = sorted(md_candidates.items(), key=...)
RECURSIVE SortedByOrderKey(_)
SortedByOrderKey(s) ==
    IF s = <<>> THEN <<>>
    ELSE InsertByOrderKey(SortedByOrderKey(SubSeq(s, 1, Len(s) - 1)), s[Len(s)])

\* the inner loop without its membership test: the top candidate, used or not
SelectIgnoringUsed(cands, used) ==
    IF cands = <<>> THEN [sel |-> <<>>, used |-> used]
    ELSE [sel |-> <<Head(cands).t>>, used |-> used \cup {Head(cands).t.idx}]

\* the inner loop without its break: every unused candidate is marked used
\* and the last of them is selected
RECURSIVE SelectWithoutBreak(_, _)
SelectWithoutBreak(cands, used) ==
    IF cands = <<>> THEN [sel |-> <<>>, used |-> used]
    ELSE LET rest == SelectWithoutBreak(Tail(cands), used \cup {Head(cands).t.idx})
         IN  IF Head(cands).t.idx \notin used /\ rest.sel = <<>>
             THEN [sel |-> <<Head(cands).t>>, used |-> rest.used]
             ELSE rest

\* the inner loop of the resolver: the first candidate whose idx is not used
\* is selected and marked used.  sel is <<t>>, or <<>> for None.
RECURSIVE SelectCandidate(_, _)
SelectCandidate(cands, used) ==
    IF cands = <<>> THEN [sel |-> <<>>, used |-> used]
    ELSE IF Head(cands).t.idx \notin used
         THEN [sel |-> <<Head(cands).t>>, used |-> used \cup {Head(cands).t.idx}]
         ELSE SelectCandidate(Tail(cands), used)

\* the outer loop over md_order: <<assigned, used_title_idxs>>, assigned
\* being the dict in insertion order, a sequence of its items
RECURSIVE GreedyLoop(_, _, _)
GreedyLoop(order, asg, used) ==
    IF order = <<>> THEN <<asg, used>>
    ELSE LET r == SelectCandidate(Head(order).cands, used)
         IN  GreedyLoop(Tail(order), Append(asg, [md |-> Head(order).md, sel |-> r.sel]),
                        r.used)

-----------------------------------------------------------------------------
(* Specification Spec: one run of main *)

MaxRows == 2

MaxDocs == 3

MainRows ==
    { [title |-> <<"a", "b">>, category_code |-> <<"0", "1">>],
      [title |-> <<"FWA", "IDSP", "b">>, category_code |-> <<"1">>],
      [title |-> <<"a", "b">>, category_code |-> <<>>],
      [title |-> <<"a">>, category_code |-> <<>>] }

MainDocs ==
    {[dir |-> <<"0", "1", "-", "x">>, stem |-> st] :
        st \in {<<"a", "b">>, <<"a">>, <<"A", "-", "b">>, <<"b">>}}

\* the text of a file in the archive: a bare body, or a file that already
\* carries the header a run wrote for the title "ab"
MainTexts ==
    { <<<<"x">>>>,
      <<Dashes, <<"title", ":", " ", "a", "b">>, Dashes, <<"x">>>> }

\* the sequences over S of length 0..n without repetition
InjectiveSeqs(S, n) ==
    {q \in SeqsUpTo(S, n) : \A i, j \in 1..Len(q) : i # j => q[i] # q[j]}

AInit ==
    /\ pc = "start"
    /\ dedupe \in {"first", "last", "none"}
    /\ dry_run \in BOOLEAN
    /\ ALocals
    /\ DIdle
    /\ MIdle
    /\ TIdle

\* load_csv, the exit on an empty table, the de-duplication chosen by
\* --dedupe and build_title_items
LoadCatalog ==
    /\ pc = "start"
    /\ \E rws \in SeqsUpTo(MainRows, MaxRows) :
          /\ rows0' = rws
          /\ IF rws = <<>>
             THEN /\ pc' = "error"
                  /\ UNCHANGED <<rows, title_items>>
             ELSE /\ pc' = "extract"
                  /\ rows' = CASE dedupe = "first" -> dedupe_rows(rws)
                               [] dedupe = "last" -> dedupe_rows_last(rws)
                               [] OTHER -> rws
                  /\ title_items' = build_title_items(rows')
    /\ UNCHANGED <<dedupe, dry_run, md_files, files, md_candidates, md_order, assigned,
                   used_title_idxs, ok, skipped_no_change, miss, ambiguous,
                   mapping_report, zip_written, dvars, mvars, tvars>>

\* the archive extracted, rglob's listing in whatever order the filesystem
\* gives, and the candidates ranked for each file
ExtractAndScore ==
    /\ pc = "extract"
    /\ \E listing \in InjectiveSeqs(MainDocs, MaxDocs) :
          /\ md_files' = listing
          /\ files' \in [Range(listing) -> MainTexts]
          /\ md_candidates' = [i \in 1..Len(listing) |->
                 [md |-> listing[i], cands |-> best_candidates_for_md(listing[i], title_items)]]
    /\ pc' = "resolve"
    /\ UNCHANGED <<dedupe, dry_run, rows0, rows, title_items, md_order, assigned,
                   used_title_idxs, ok, skipped_no_change, miss, ambiguous,
                   mapping_report, zip_written, dvars, mvars, tvars>>

\* the greedy one-to-one assignment
Resolve ==
    /\ pc = "resolve"
    /\ md_order' = SortedByOrderKey(md_candidates)
    /\ LET g == GreedyLoop(md_order', <<>>, {})
       IN  /\ assigned' = g[1]
           /\ used_title_idxs' = g[2]
    /\ pc' = "apply"
    /\ UNCHANGED <<dedupe, dry_run, rows0, rows, title_items, md_files, files,
                   md_candidates, ok, skipped_no_change, miss, ambiguous,
                   mapping_report, zip_written, dvars, mvars, tvars>>

CandsOf(md) ==
    LET i == CHOOSE i \in 1..Len(md_candidates) : md_candidates[i].md = md
    IN  md_candidates[i].cands

CandTitles(cands) == [j \in 1..Len(cands) |-> cands[j].t.title]

\* the locals after one pass of the apply loop that merged res into the file
\* of md: st holds files, ok, skipped_no_change, miss, ambiguous,
\* mapping_report
ApplyItem(st, md, sel, res, cands) ==
    LET changed == IF dry_run THEN TRUE ELSE res.changed
    IN  [files |-> IF ~dry_run /\ res.written
                   THEN [st.files EXCEPT ![md] = res.text]
                   ELSE st.files,
         ok |-> IF changed THEN st.ok + 1 ELSE st.ok,
         skipped_no_change |->
             IF changed THEN st.skipped_no_change
             ELSE st.skipped_no_change + 1,
         miss |-> st.miss,
         ambiguous |->
             IF Len(cands) > 1
             THEN Append(st.ambiguous, [md |-> md, titles |-> CandTitles(cands)])
             ELSE st.ambiguous,
         mapping_report |->
             Append(st.mapping_report,
                    [md |-> md, title |-> sel[1].title,
                     category |-> sel[1].category, changed |-> changed])]

\* one pass of the apply loop for the item (md, sel) of assigned
ApplyStep(st, md, sel) ==
    IF sel = <<>>
    THEN [st EXCEPT !.miss = Append(@, md)]
    ELSE ApplyItem(st, md, sel,
                   ensure_front_matter(st.files[md], AssignOf(sel[1].title, sel[1].row)),
                   CandsOf(md))

\* the apply loop over assigned.items()
RECURSIVE ApplyLoop(_, _)
ApplyLoop(asg, st) ==
    IF asg = <<>> THEN st
    ELSE ApplyLoop(Tail(asg), ApplyStep(st, Head(asg).md, Head(asg).sel))

\* the counters and lists the summary prints, and the files as left on disk
ApplyResult(st) ==
    /\ files' = st.files
    /\ ok' = st.ok
    /\ skipped_no_change' = st.skipped_no_change
    /\ miss' = st.miss
    /\ ambiguous' = st.ambiguous
    /\ mapping_report' = st.mapping_report

\* the apply loop and the re-pack, which a dry run skips
Apply ==
    /\ pc = "apply"
    /\ ApplyResult(ApplyLoop(assigned,
                     [files |-> files, ok |-> 0, skipped_no_change |-> 0, miss |-> <<>>,
                      ambiguous |-> <<>>, mapping_report |-> <<>>]))
    /\ zip_written' = ~dry_run
    /\ pc' = "done"
    /\ UNCHANGED <<dedupe, dry_run, rows0, rows, title_items, md_files, md_candidates,
                   md_order, assigned, used_title_idxs, dvars, mvars, tvars>>

Next == LoadCatalog \/ ExtractAndScore \/ Resolve \/ Apply

Spec == AInit /\ [][Next]_vars

-----------------------------------------------------------------------------
(* C1, C5, C7, C9, C4 *)

Resolved == pc \in {"apply", "done"}

\* C1: two distinct documents that are both assigned hold different
\* catalog items.
C1_AssignmentIsMatching ==
    Resolved =>
        \A i, j \in 1..Len(assigned) :
            (i # j /\ assigned[i].sel # <<>> /\ assigned[j].sel # <<>>)
                => assigned[i].sel[1].idx # assigned[j].sel[1].idx

\* two assigned documents that share a candidate, under --dedupe none with a
\* repeated row
C1_Witness ==
    /\ Resolved
    /\ dedupe = "none"
    /\ Len(rows) = 2 /\ rows[1] = rows[2]
    /\ \E i, j \in 1..Len(assigned) :
          /\ i # j
          /\ assigned[i].sel # <<>> /\ assigned[j].sel # <<>>
          /\ Len(CandsOf(assigned[i].md)) = 2
          /\ Len(CandsOf(assigned[j].md)) = 2

SelOf(md) ==
    LET i == CHOOSE i \in 1..Len(assigned) : assigned[i].md = md
    IN  assigned[i].sel

\* documents d1, d2 whose candidate lists are the one item idx, which no
\* other document lists, d1 scoring strictly higher
SoleContest(d1, d2, idx) ==
    /\ d1 # d2
    /\ Len(CandsOf(d1)) = 1 /\ CandsOf(d1)[1].t.idx = idx
    /\ Len(CandsOf(d2)) = 1 /\ CandsOf(d2)[1].t.idx = idx
    /\ CandsOf(d1)[1].score > CandsOf(d2)[1].score
    /\ \A d \in Range(md_files) \ {d1, d2} :
          \A j \in 1..Len(CandsOf(d)) : CandsOf(d)[j].t.idx # idx

\* C5: of two documents with the same single candidate that no other
\* document lists, the higher-scoring one is assigned it and the other is
\* unassigned, in whatever order the files were listed.
C5_HigherScoreWins ==
    Resolved =>
        \A d1, d2 \in Range(md_files) : \A idx \in 1..Len(rows) :
            SoleContest(d1, d2, idx)
                => /\ SelOf(d1) # <<>> /\ SelOf(d1)[1].idx = idx
                   /\ SelOf(d2) = <<>>
                   /\ (pc = "done" => d2 \in Range(miss))

\* such a contest with the lower-scoring document listed first
C5_Witness ==
    /\ pc = "done"
    /\ \E i, j \in 1..Len(md_files) :
          /\ j < i
          /\ SoleContest(md_files[i], md_files[j], 1)
          /\ SelOf(md_files[i]) # <<>>

\* C7: every document with more than one candidate is in the report's
\* ambiguous list.
C7_AmbiguousAlwaysFlagged ==
    pc = "done" =>
        \A d \in Range(md_files) :
            Len(CandsOf(d)) > 1 => \E j \in 1..Len(ambiguous) : ambiguous[j].md = d

AssignedIdxs(S) == {assigned[i].sel[1].idx : i \in {i \in S : assigned[i].sel # <<>>}}

\* C9: an unassigned document has every candidate assigned to another
\* document; an assigned document holds the first candidate of its list that
\* no document processed before it holds.
C9_GreedyFirstUnused ==
    Resolved =>
        \A i \in 1..Len(assigned) :
            LET cands == CandsOf(assigned[i].md)
                earlier == AssignedIdxs(1..(i - 1))
                others == AssignedIdxs((1..Len(assigned)) \ {i})
                free == {j \in 1..Len(cands) : cands[j].t.idx \notin earlier}
            IN  /\ assigned[i].md = md_order[i].md
                /\ assigned[i].sel = <<>>
                      => \A j \in 1..Len(cands) : cands[j].t.idx \in others
                /\ assigned[i].sel # <<>>
                      => (free # {} /\ assigned[i].sel[1] = cands[MinOf(free)].t)

\* one document left unassigned with two candidates, both taken, and one
\* document assigned its second candidate
C9_Witness ==
    /\ Resolved
    /\ \E i \in 1..Len(assigned) :
          assigned[i].sel = <<>> /\ Len(CandsOf(assigned[i].md)) = 2
    /\ \E i \in 1..Len(assigned) :
          /\ assigned[i].sel # <<>>
          /\ Len(CandsOf(assigned[i].md)) = 2
          /\ assigned[i].sel[1] = CandsOf(assigned[i].md)[2].t

\* C4: a dry run reports for every assigned document the changed value the
\* live run reports for it, the one ensure_front_matter returns on the
\* document's file.
C4_DryRunReportsLiveChanged ==
    (pc = "done" /\ dry_run) =>
        \A j \in 1..Len(mapping_report) :
            LET sel == SelOf(mapping_report[j].md)[1]
            IN  mapping_report[j].changed
                  = ensure_front_matter(files[mapping_report[j].md],
                                        AssignOf(sel.title, sel.row)).changed

-----------------------------------------------------------------------------
(* Tree builder (tree_build.py) *)

\* LEVEL_MAP; the labels 法律, 行政法规, 司法解释, 部门规章 are written as
\* one element each
LEVEL_MAP ==
    (<<"1">> :> <<"FALV">>) @@ (<<"2">> :> <<"XINGZHENGFAGUI">>)
    @@ (<<"3">> :> <<"SIFAJIESHI">>) @@ (<<"4">> :> <<"BUMENGUIZHANG">>)

\* '其他'
OtherLabel == <<"QITA">>

\* '未分类'
Uncategorized == <<"WEIFENLEI">>

\* re.search(r"^---\s*$.*?^---\s*$", text, flags=re.S | re.M): the first
\* delimiter line that a later one follows, and the first one after it
TreeFence(text) == LooseFence(text)

\* str.strip(chars)
StripSet(s, C) == RStripSet(LStripSet(s, C), C)

\* the (key, value) a header line with a ':' gives: split at the first ':',
\* the key stripped, the value stripped and its surrounding " then ' removed
TreeParseLine(line) ==
    LET n == PrefixLen(line, {c \in Range(line) : c # ":"})
    IN  <<Strip(SubSeq(line, 1, n)),
          StripSet(StripSet(Strip(DropN(line, n + 1)), {"\""}), {"'"})>>

RECURSIVE TreeParseLines(_)
TreeParseLines(lines) ==
    IF lines = <<>> THEN <<>>
    ELSE LET rest == TreeParseLines(SubSeq(lines, 1, Len(lines) - 1))
             l == lines[Len(lines)]
         IN  IF ":" \in Range(l)
             THEN (TreeParseLine(l)[1] :> TreeParseLine(l)[2]) @@ rest
             ELSE rest

\* a line matching ^\s*#{1,6}\s+(.+?)\s*$ and its group 1, stripped; <<>> for
\* no match
HeadingOf(line) ==
    LET a == LStripSet(line, Whitespace)
        n == PrefixLen(a, {"#"})
        b == DropN(a, n)
    IN  IF n >= 1 /\ n <= 6 /\ b # <<>> /\ IsSpace(Head(b)) /\ Strip(b) # <<>>
        THEN Strip(b)
        ELSE <<>>

\* the first heading of the lines, or <<>>
FirstHeading(lines) ==
    LET hs == {i \in 1..Len(lines) : HeadingOf(lines[i]) # <<>>}
    IN  IF hs = {} THEN <<>> ELSE HeadingOf(lines[MinOf(hs)])

\* parse_front_matter on a file p = [stem, name, path, text]
parse_front_matter(p) ==
    LET f == IF StartsWithDashes(p.text) THEN TreeFence(p.text) ELSE <<>>
        meta == IF f = <<>> THEN <<>>
                ELSE TreeParseLines(SubSeq(p.text, f[1] + 1, f[2] - 1))
        after == IF f = <<>> THEN p.text ELSE SubSeq(p.text, f[2] + 1, Len(p.text))
    IN  IF <<"title">> \notin DOMAIN meta \/ meta[<<"title">>] = <<>>
        THEN (<<"title">> :> (IF FirstHeading(after) # <<>> THEN FirstHeading(after)
                              ELSE p.stem)) @@ meta
        ELSE meta

\* dict.get(key, default)
GetOr(d, k, default) == IF <<k>> \in DOMAIN d THEN d[<<k>>] ELSE default

\* level_to_name
level_to_name(level_str) ==
    IF Strip(level_str) \in DOMAIN LEVEL_MAP THEN LEVEL_MAP[Strip(level_str)]
    ELSE OtherLabel

\* ord() of the characters the sort keys are made of
Ord(c) ==
    CASE c = "1" -> 49
      [] c = "2" -> 50
      [] c = "9" -> 57
      [] c = "x" -> 120
      [] OTHER -> 121

\* a < b for strings
RECURSIVE StrLess(_, _)
StrLess(a, b) ==
    IF b = <<>> THEN FALSE
    ELSE IF a = <<>> THEN TRUE
    ELSE IF Head(a) # Head(b) THEN Ord(Head(a)) < Ord(Head(b))
    ELSE StrLess(Tail(a), Tail(b))

\* the sort key of build_tree_safe
TreeSortKey(doc) ==
    <<GetOr(doc, "category_code", <<>>), GetOr(doc, "level", <<>>),
      GetOr(doc, "catalog_key", <<>>), GetOr(doc, "sub_anchor", <<>>)>>

\* a < b for tuples of strings
RECURSIVE TupleLess(_, _)
TupleLess(a, b) ==
    IF a = <<>> \/ b = <<>> THEN FALSE
    ELSE IF Head(a) # Head(b) THEN StrLess(Head(a), Head(b))
    ELSE TupleLess(Tail(a), Tail(b))

\* list.sort is stable
RECURSIVE InsertDoc(_, _)
InsertDoc(sorted, x) ==
    IF sorted = <<>> THEN <<x>>
    ELSE IF ~TupleLess(TreeSortKey(x), TreeSortKey(Head(sorted)))
         THEN <<Head(sorted)>> \o InsertDoc(Tail(sorted), x)
         ELSE <<x>> \o sorted

RECURSIVE SortDocs(_)
SortDocs(s) ==
    IF s = <<>> THEN <<>>
    ELSE InsertDoc(SortDocs(SubSeq(s, 1, Len(s) - 1)), s[Len(s)])

\* the scan loop: the metadata of the files that have a category_code and a
\* level, with their path and name
RECURSIVE ScanDocs(_)
ScanDocs(ps) ==
    IF ps = <<>> THEN <<>>
    ELSE LET meta == parse_front_matter(Head(ps))
         IN  IF GetOr(meta, "category_code", <<>>) = <<>> \/ GetOr(meta, "level", <<>>) = <<>>
             THEN ScanDocs(Tail(ps))
             ELSE <<(<<"path">> :> Head(ps).path) @@ (<<"name">> :> Head(ps).name) @@ meta>>
                  \o ScanDocs(Tail(ps))

\* the category name a document is filed under
CategoryNameOf(doc) == GetOr(doc, "category_name", Uncategorized)

\* the file node appended to a level node
FileNode(doc) ==
    [name |-> doc[<<"name">>], type |-> "file",
     path |-> <<"content/">> \o doc[<<"path">>],
     title |-> GetOr(doc, "title", doc[<<"name">>])]

\* the level node of a category's children after doc is filed under it
AddToLevels(children, level_name, doc) ==
    LET at == {i \in 1..Len(children) : children[i].name = level_name}
    IN  IF at = {}
        THEN Append(children, [name |-> level_name, type |-> "dir",
                               children |-> <<FileNode(doc)>>])
        ELSE [children EXCEPT ![MinOf(at)].children = Append(@, FileNode(doc))]

\* the grouping loop
RECURSIVE GroupDocs(_, _)
GroupDocs(docs, tree) ==
    IF docs = <<>> THEN tree
    ELSE LET doc == Head(docs)
             category_name == CategoryNameOf(doc)
             level_name == level_to_name(GetOr(doc, "level", <<>>))
             at == {i \in 1..Len(tree) : tree[i].name = category_name}
         IN  IF at = {}
             THEN GroupDocs(Tail(docs),
                      Append(tree, [name |-> category_name, type |-> "dir",
                                    children |-> AddToLevels(<<>>, level_name, doc)]))
             ELSE GroupDocs(Tail(docs),
                      [tree EXCEPT ![MinOf(at)].children = AddToLevels(@, level_name, doc)])

build_tree_safe(ps) == GroupDocs(SortDocs(ScanDocs(ps)), <<>>)

-----------------------------------------------------------------------------
(* Specification SpecTree: one run of tree_build's main *)

MaxTreeDocs == 2

TreePaths ==
    { [stem |-> <<"p">>, name |-> <<"p", ".md">>, path |-> <<"d", "/", "p", ".md">>],
      [stem |-> <<"q">>, name |-> <<"q", ".md">>, path |-> <<"q", ".md">>] }

\* the header lines a file may hold for one key: none, or one of these
OptLines(k, vals) == {<<>>} \cup {<<<<k, ":", " ">> \o v>> : v \in vals}

TreeTexts ==
    {<<Dashes>> \o cc \o lv \o cn \o ti \o <<Dashes, <<"#", " ", "y">>>> :
        cc \in OptLines("category_code", {<<"1">>, <<"2">>}),
        lv \in OptLines("level", {<<"1">>, <<"9">>}),
        cn \in OptLines("category_name", {<<"x">>, <<"\"", "\"">>}),
        ti \in OptLines("title", {<<"x">>})}

TreeFiles ==
    {[stem |-> p.stem, name |-> p.name, path |-> p.path, text |-> t] :
        p \in TreePaths, t \in TreeTexts}

TInit ==
    /\ t_pc = "start"
    /\ t_docs = <<>>
    /\ t_tree = <<>>
    /\ DIdle
    /\ MIdle
    /\ AIdle

\* src.rglob('*.md') and the files' texts
TScan ==
    /\ t_pc = "start"
    /\ \E ps \in SeqsUpTo(TreeFiles, MaxTreeDocs) :
          /\ \A i, j \in 1..Len(ps) : i # j => ps[i].path # ps[j].path
          /\ t_docs' = ps
    /\ t_pc' = "scanned"
    /\ UNCHANGED <<t_tree, dvars, mvars, avars>>

\* build_tree_safe, whose result main writes to tree.json
TBuild ==
    /\ t_pc = "scanned"
    /\ t_tree' = build_tree_safe(t_docs)
    /\ t_pc' = "done"
    /\ UNCHANGED <<t_docs, dvars, mvars, avars>>

TNext == TScan \/ TBuild

SpecTree == TInit /\ [][TNext]_vars

-----------------------------------------------------------------------------
(* C10 *)

\* the file nodes under the category node of this name
FilesUnder(tree, name) ==
    {n.path : n \in UNION {Range(lv.children) :
        lv \in UNION {Range(tree[i].children) : i \in {i \in 1..Len(tree) : tree[i].name = name}}}}

\* C10: every included document whose header has no category_name, or an
\* empty one, is under the category node named by the sentinel, and no
\* category node has an empty name.
C10_EmptyCategoryIsUncategorized ==
    t_pc = "done" =>
        /\ \A i \in 1..Len(t_tree) : t_tree[i].name # <<>>
        /\ \A doc \in Range(ScanDocs(t_docs)) :
              GetOr(doc, "category_name", <<>>) = <<>>
                  => FileNode(doc).path \in FilesUnder(t_tree, Uncategorized)

=============================================================================
